---- MODULE Spec2Model ----
(***************************************************************************)
(* Model of the React hook useSessionIndex (src/src/lib/use-session-index.ts). *)
(*                                                                         *)
(* The hook keeps three pieces of component state (state, status, error),  *)
(* a ref holding the consumer's latest change callback, and one effect     *)
(* keyed on [projectPath, sessionId].  Every run of the effect with a      *)
(* truthy sessionId creates an "activation": a closure holding             *)
(* projectPath, sessionId, cancelled, unlistenIndexReady and               *)
(* unlistenSessionChanged, and an async function setupSession that         *)
(* suspends at three awaits (listen, listen, invoke).                      *)
(*                                                                         *)
(* Environment, as relied on by the hook:                                  *)
(*  - React: a render computes the return value from the current state;    *)
(*    the passive effect of a render (cleanup of the previous effect, then *)
(*    the new effect body) runs after that render as one synchronous       *)
(*    flush; state updates made in one task are batched (React 18), so the *)
(*    three setters called by one handler take effect together.  The flush *)
(*    is a later task than the render: bridge deliveries can come between. *)
(*  - Bridge: listen() and invoke() return promises that later resolve or  *)
(*    reject; a handler is registered when its listen() resolves, an       *)
(*    event is broadcast to every registered handler of its stream,        *)
(*    calling the disposer unregisters the handler.  The engine is not     *)
(*    part of the repository: it may emit any payload at any time.         *)
(***************************************************************************)
EXTENDS Integers, Sequences, FiniteSets, TLC

\* ---------------------------------------------------------------- bounds
\* Number of activations (effect runs with a truthy sessionId) explored.
MaxActivations == 2

\* ---------------------------------------------------------------- values
\* JavaScript null / undefined for string-valued slots.
Null == "<null>"
\* status === null is the empty sequence, a status object s is <<s>>.
NoStatus == <<>>

\* Props <<projectPath, sessionId>> the consumer renders the hook with
\* (sessionId: string | null): two sessions of one project, and no session.
Props == {<<"p1", "s1">>, <<"p1", "s2">>, <<"p1", Null>>}
\* Identities <<projectPath, sessionId>> carried by the engine's events:
\* against the props, one differs by sessionId only, one by projectPath only.
Payloads == {<<"p1", "s1">>, <<"p2", "s1">>}
\* onSessionChanged?: () => void
Callbacks == {Null, "cb1", "cb2"}

\* IndexStatus objects the engine can deliver: counts plus an optional error.
IndexStatuses ==
    { [count |-> 5, error |-> Null],
      [count |-> 0, error |-> "X"],
      [count |-> 3, error |-> ""] }

\* Values a rejected listen()/invoke() can carry: an Error object, or a
\* plain string (what the bridge rejects with).
Failures ==
    { [isError |-> TRUE, message |-> "disk full"],
      [isError |-> FALSE, value |-> "denied"] }

\* JavaScript truthiness of a string | null | undefined value.
Truthy(s) == s # Null /\ s # ""

\* err instanceof Error ? err.message : String(err)
ErrText(err) == IF err.isError THEN err.message ELSE err.value

VARIABLES
    mounted,               \* the component is mounted
    projectPath,           \* props of the latest render
    sessionId,
    onSessionChangedRef,   \* onSessionChangedRef.current
    state, status, error,  \* the three useState cells
    deps,                  \* dependency array of the last effect run, <<>> before the first
    current,               \* activation whose cleanup React holds, 0 if none
    acts,                  \* every activation created so far, in creation order
    listeners,             \* handlers registered at the bridge: [act, event]
    unwatchPending,        \* unwatch_session promises not yet settled
    last                   \* the step just taken (history)

vars == <<mounted, projectPath, sessionId, onSessionChangedRef, state, status,
          error, deps, current, acts, listeners, unwatchPending, last>>

hookState == <<state, status, error>>

\* ------------------------------------------------------------ read model
\* The object the hook returns (lines 146-152), computed from the state cells.
ReadModel(st, sta, er) ==
    [state |-> st,
     isIndexing |-> st = "indexing",
     isReady |-> st = "ready",
     status |-> sta,
     error |-> er]

\* The effect of the latest render has not run yet (first mount, or the
\* dependency array [projectPath, sessionId] changed by value).
EffectPending == mounted /\ deps # <<projectPath, sessionId>>

\* What the latest render returned to the consumer: React renders again
\* after every change of a state cell, so it is the projection of the cells.
view == ReadModel(state, status, error)

\* History: what the bridge delivered in the step just taken (an event with
\* its payload identity and the calls made to the consumer's callback, or the
\* settlement of a promise of activation a); NoEvent after a step of React.
Event(op, a, pp, sid, calls) ==
    [op |-> op, act |-> a, projectPath |-> pp, sessionId |-> sid, calls |-> calls]
NoEvent == Event("none", 0, Null, Null, <<>>)

\* --------------------------------------------------------------- closures
\* A fresh activation: the closure of one effect run (lines 66-68) with
\* setupSession suspended at its first await (line 78).
NewActivation(pp, sid) ==
    [projectPath |-> pp,
     sessionId |-> sid,
     cancelled |-> FALSE,
     unlistenIndexReady |-> FALSE,      \* TRUE once assigned a disposer
     unlistenSessionChanged |-> FALSE,  \* TRUE once assigned a disposer
     pc |-> "listenIndexReady",
     watchCalls |-> 0,                  \* invoke("watch_session") issued
     unwatchCalls |-> 0]                \* invoke("unwatch_session") issued

\* Mutant: a cleanup that cancels and disposes but issues no unwatch_session.
CleanupAct_NoUnwatch(rec) == [rec EXCEPT !.cancelled = TRUE]

\* The cleanup returned by the effect (lines 128-143), on the closure.
CleanupAct(rec) ==
    [rec EXCEPT !.cancelled = TRUE,
                !.unwatchCalls = @ + 1]

\* The handlers cleanup disposes: those whose disposer variable is set.
Disposed(rec, a) ==
    (IF rec.unlistenIndexReady
        THEN {[act |-> a, event |-> "index-ready"]} ELSE {})
    \cup
    (IF rec.unlistenSessionChanged
        THEN {[act |-> a, event |-> "session-changed"]} ELSE {})

\* ------------------------------------------------------------------ Init
\* The component has rendered once with some props; its first effect has
\* not run yet.
Init ==
    /\ mounted = TRUE
    /\ \E p \in Props : projectPath = p[1] /\ sessionId = p[2]
    /\ onSessionChangedRef \in Callbacks
    /\ state = "idle"
    /\ status = NoStatus
    /\ error = Null
    /\ deps = <<>>
    /\ current = 0
    /\ acts = <<>>
    /\ listeners = {}
    /\ unwatchPending = 0
    /\ last = NoEvent

\* Mutant: onSessionChanged is a dependency of the effect, so a render
\* with another callback makes the effect run again.
Render_CallbackDep(pp, sid, cb) ==
    /\ mounted
    /\ ~EffectPending
    /\ (<<pp, sid>> # deps /\ Truthy(sid)) => Len(acts) < MaxActivations
    /\ projectPath' = pp
    /\ sessionId' = sid
    /\ onSessionChangedRef' = cb
    /\ last' = NoEvent
    /\ deps' = IF cb # onSessionChangedRef THEN <<>> ELSE deps
    /\ UNCHANGED <<mounted, state, status, error, current, acts,
                   listeners, unwatchPending>>

\* --------------------------------------------------------------- actions
\* The consumer renders the hook again (lines 45-56, 146-152): new props
\* and callback are taken and the ref is overwritten; the return value is
\* view, computed from the state cells as they are now.
Render(pp, sid, cb) ==
    /\ mounted
    /\ ~EffectPending
    /\ (<<pp, sid>> # deps /\ Truthy(sid)) => Len(acts) < MaxActivations
    /\ projectPath' = pp
    /\ sessionId' = sid
    /\ onSessionChangedRef' = cb
    /\ last' = NoEvent
    /\ UNCHANGED <<mounted, state, status, error, deps, current, acts,
                   listeners, unwatchPending>>

\* The cleanup React holds (lines 128-143) runs, if the previous effect
\* returned one: the closure is cancelled, the disposers that are set are
\* called and unwatch_session is issued.
RunCleanup ==
    IF current = 0
    THEN UNCHANGED <<listeners, unwatchPending>>
    ELSE /\ listeners' = listeners \ Disposed(acts[current], current)
         /\ unwatchPending' = unwatchPending + 1

Cleaned ==
    IF current = 0 THEN acts ELSE [acts EXCEPT ![current] = CleanupAct(@)]

\* The state cells after the synchronous part of the effect body
\* (lines 59-64 for a falsy sessionId, lines 71-73 otherwise).
EffectCells(sid) ==
    IF ~Truthy(sid) THEN <<"idle", NoStatus, Null>>
    ELSE <<"indexing", NoStatus, Null>>

\* React flushes the pending effect (lines 58-144): the previous effect's
\* cleanup, then the effect body for the new props, up to the first await.
CommitEffects ==
    /\ EffectPending
    /\ RunCleanup
    /\ state' = EffectCells(sessionId)[1]
    /\ status' = EffectCells(sessionId)[2]
    /\ error' = EffectCells(sessionId)[3]
    /\ IF ~Truthy(sessionId)
       THEN /\ acts' = Cleaned
            /\ current' = 0
       ELSE /\ acts' = Append(Cleaned, NewActivation(projectPath, sessionId))
            /\ current' = Len(acts) + 1
    /\ deps' = <<projectPath, sessionId>>
    /\ last' = NoEvent
    /\ UNCHANGED <<mounted, projectPath, sessionId, onSessionChangedRef>>

\* The component unmounts: React runs the cleanup it holds.
Unmount ==
    /\ mounted
    /\ ~EffectPending
    /\ mounted' = FALSE
    /\ RunCleanup
    /\ acts' = Cleaned
    /\ current' = 0
    /\ last' = NoEvent
    /\ UNCHANGED <<projectPath, sessionId, onSessionChangedRef, state, status,
                   error, deps>>

\* ----------------------------------------------------------- setupSession
\* Mutant: a catch block that goes back to indexing to try again.
Catch_Retry(rec, err, hs) ==
    IF rec.cancelled THEN hs
    ELSE <<"indexing", NoStatus, Null>>

\* Mutant: a catch block that forgets setStatus(null).
Catch_KeepStatus(rec, err, hs) ==
    IF rec.cancelled THEN hs
    ELSE <<"error", hs[2], ErrText(err)>>

\* Mutant: a catch block without the cancelled check.
Catch_NoCancelCheck(rec, err, hs) == <<"error", NoStatus, ErrText(err)>>

\* The catch block (lines 118-123) on the state cells hs: a cancelled
\* activation returns without touching them.
Catch(rec, err, hs) ==
    IF rec.cancelled THEN hs
    ELSE <<"error", NoStatus, ErrText(err)>>

\* Mutant: watch_session is invoked before session-changed is subscribed.
AfterListenIndexReady_WatchFirst(rec) ==
    [rec EXCEPT !.unlistenIndexReady = TRUE,
                !.watchCalls = @ + 1,
                !.pc = "listenSessionChanged"]

\* The closure after listen("index-ready") resolved (line 78): the disposer
\* is stored and setupSession goes on to call listen("session-changed").
AfterListenIndexReady(rec) ==
    [rec EXCEPT !.unlistenIndexReady = TRUE,
                !.pc = "listenSessionChanged"]

\* The closure after listen("session-changed") resolved (line 101): the
\* disposer is stored and invoke("watch_session") is issued (line 114).
AfterListenSessionChanged(rec) ==
    [rec EXCEPT !.unlistenSessionChanged = TRUE,
                !.watchCalls = @ + 1,
                !.pc = "watch"]

\* The closure after an await threw: setupSession returns from the catch.
AfterThrow(rec) == [rec EXCEPT !.pc = "returned"]

ListenIndexReadyResolve(a) ==
    /\ a \in 1..Len(acts)
    /\ acts[a].pc = "listenIndexReady"
    /\ acts' = [acts EXCEPT ![a] = AfterListenIndexReady(@)]
    /\ listeners' = listeners \cup {[act |-> a, event |-> "index-ready"]}
    /\ last' = Event("listen-index-ready-resolved", a, Null, Null, <<>>)
    /\ UNCHANGED <<mounted, projectPath, sessionId, onSessionChangedRef, state,
                   status, error, deps, current, unwatchPending>>

ListenSessionChangedResolve(a) ==
    /\ a \in 1..Len(acts)
    /\ acts[a].pc = "listenSessionChanged"
    /\ acts' = [acts EXCEPT ![a] = AfterListenSessionChanged(@)]
    /\ listeners' = listeners \cup {[act |-> a, event |-> "session-changed"]}
    /\ last' = Event("listen-session-changed-resolved", a, Null, Null, <<>>)
    /\ UNCHANGED <<mounted, projectPath, sessionId, onSessionChangedRef, state,
                   status, error, deps, current, unwatchPending>>

\* Mutant: an accepted watch_session is taken for a finished index.
WatchResolve_SetsReady(a) ==
    /\ a \in 1..Len(acts)
    /\ acts[a].pc = "watch"
    /\ acts' = [acts EXCEPT ![a].pc = "returned"]
    /\ last' = Event("watch-resolved", a, Null, Null, <<>>)
    /\ state' = IF acts[a].cancelled THEN state ELSE "ready"
    /\ UNCHANGED <<mounted, projectPath, sessionId, onSessionChangedRef,
                   status, error, deps, current, listeners, unwatchPending>>

\* invoke("watch_session") resolves (line 114): setupSession returns.
WatchResolve(a) ==
    /\ a \in 1..Len(acts)
    /\ acts[a].pc = "watch"
    /\ acts' = [acts EXCEPT ![a].pc = "returned"]
    /\ last' = Event("watch-resolved", a, Null, Null, <<>>)
    /\ UNCHANGED <<mounted, projectPath, sessionId, onSessionChangedRef, state,
                   status, error, deps, current, listeners, unwatchPending>>

\* The pending await of activation a (either listen, or the watch_session
\* invoke) rejects with err: control goes to the catch block.
AwaitReject(a, err) ==
    /\ a \in 1..Len(acts)
    /\ acts[a].pc \in {"listenIndexReady", "listenSessionChanged", "watch"}
    /\ acts' = [acts EXCEPT ![a] = AfterThrow(@)]
    /\ LET hs == Catch(acts[a], err, hookState)
       IN /\ state' = hs[1]
          /\ status' = hs[2]
          /\ error' = hs[3]
    /\ last' = Event("await-rejected", a, Null, Null, <<>>)
    /\ UNCHANGED <<mounted, projectPath, sessionId, onSessionChangedRef, deps,
                   current, listeners, unwatchPending>>

\* Mutant: the .catch handler of unwatch_session surfaces the failure.
UnwatchSettle_Surface(ok) ==
    /\ unwatchPending > 0
    /\ unwatchPending' = unwatchPending - 1
    /\ last' = Event(IF ok THEN "unwatch-resolved" ELSE "unwatch-rejected",
                     0, Null, Null, <<>>)
    /\ IF ok THEN UNCHANGED <<state, status, error>>
       ELSE state' = "error" /\ status' = NoStatus /\ error' = "denied"
    /\ UNCHANGED <<mounted, projectPath, sessionId, onSessionChangedRef, deps,
                   current, acts, listeners>>

\* An invoke("unwatch_session") settles (lines 137-142): a rejection is
\* only logged by the .catch handler.
UnwatchSettle(ok) ==
    /\ unwatchPending > 0
    /\ unwatchPending' = unwatchPending - 1
    /\ last' = Event(IF ok THEN "unwatch-resolved" ELSE "unwatch-rejected",
                     0, Null, Null, <<>>)
    /\ UNCHANGED <<mounted, projectPath, sessionId, onSessionChangedRef, state,
                   status, error, deps, current, acts, listeners>>

\* ---------------------------------------------------------------- handlers
\* Mutant: an identity test that compares the sessionId only.
PayloadMatches_SessionOnly(rec, pp, sid) == sid = rec.sessionId

\* The identity test both handlers make on a payload (lines 82-85, 104-107).
PayloadMatches(rec, pp, sid) ==
    pp = rec.projectPath /\ sid = rec.sessionId

\* Mutant: the ready branch forgets to store the delivered status.
IndexReadyHandler_DropStatus(rec, pp, sid, indexStatus, hs) ==
    IF rec.cancelled THEN hs
    ELSE IF pp = rec.projectPath /\ sid = rec.sessionId
         THEN IF Truthy(indexStatus.error)
              THEN <<"error", NoStatus, indexStatus.error>>
              ELSE <<"ready", NoStatus, Null>>
         ELSE hs

\* Mutant: the handler never looks at status.error.
IndexReadyHandler_IgnoreError(rec, pp, sid, indexStatus, hs) ==
    IF rec.cancelled THEN hs
    ELSE IF pp = rec.projectPath /\ sid = rec.sessionId
         THEN <<"ready", <<indexStatus>>, Null>>
         ELSE hs

\* Mutant: the error branch forgets setStatus(null).
IndexReadyHandler_KeepStatus(rec, pp, sid, indexStatus, hs) ==
    IF rec.cancelled THEN hs
    ELSE IF pp = rec.projectPath /\ sid = rec.sessionId
         THEN IF Truthy(indexStatus.error)
              THEN <<"error", hs[2], indexStatus.error>>
              ELSE <<"ready", <<indexStatus>>, Null>>
         ELSE hs

\* The index-ready handler of activation rec (lines 80-97) applied to the
\* state cells hs = <<state, status, error>>.
IndexReadyHandler(rec, pp, sid, indexStatus, hs) ==
    IF rec.cancelled THEN hs
    ELSE IF PayloadMatches(rec, pp, sid)
         THEN IF Truthy(indexStatus.error)
              THEN <<"error", NoStatus, indexStatus.error>>
              ELSE <<"ready", <<indexStatus>>, Null>>
         ELSE hs

\* The session-changed handler of activation rec (lines 103-110): the calls
\* it makes to the consumer's callback, read from the ref at delivery time.
SessionChangedHandler(rec, pp, sid, ref) ==
    IF PayloadMatches(rec, pp, sid) /\ ref # Null THEN <<ref>> ELSE <<>>

\* An event is broadcast to the registered handlers of its stream, in
\* activation order.
RECURSIVE DeliverIndexReady(_, _, _, _, _)
DeliverIndexReady(a, pp, sid, indexStatus, hs) ==
    IF a > Len(acts) THEN hs
    ELSE DeliverIndexReady(a + 1, pp, sid, indexStatus,
            IF [act |-> a, event |-> "index-ready"] \in listeners
            THEN IndexReadyHandler(acts[a], pp, sid, indexStatus, hs)
            ELSE hs)

RECURSIVE DeliverSessionChanged(_, _, _)
DeliverSessionChanged(a, pp, sid) ==
    IF a > Len(acts) THEN <<>>
    ELSE (IF [act |-> a, event |-> "session-changed"] \in listeners
          THEN SessionChangedHandler(acts[a], pp, sid, onSessionChangedRef)
          ELSE <<>>)
         \o DeliverSessionChanged(a + 1, pp, sid)

\* The bridge delivers an index-ready event with payload
\* {projectPath, sessionId, status} to the handlers registered for it.
IndexReadyEvent(pp, sid, indexStatus) ==
    /\ \E l \in listeners : l.event = "index-ready"
    /\ LET hs == DeliverIndexReady(1, pp, sid, indexStatus, hookState)
       IN /\ state' = hs[1]
          /\ status' = hs[2]
          /\ error' = hs[3]
    /\ last' = Event("index-ready", 0, pp, sid, <<>>)
    /\ UNCHANGED <<mounted, projectPath, sessionId, onSessionChangedRef, deps,
                   current, acts, listeners, unwatchPending>>

\* The bridge delivers a session-changed event with payload
\* {projectPath, sessionId} to the handlers registered for it.
SessionChangedEvent(pp, sid) ==
    /\ \E l \in listeners : l.event = "session-changed"
    /\ last' = Event("session-changed", 0, pp, sid,
                     DeliverSessionChanged(1, pp, sid))
    /\ UNCHANGED <<mounted, projectPath, sessionId, onSessionChangedRef, state,
                   status, error, deps, current, acts, listeners, unwatchPending>>

\* ------------------------------------------------------------------ Next
Next ==
    \/ \E p \in Props, cb \in Callbacks : Render(p[1], p[2], cb)
    \/ CommitEffects
    \/ Unmount
    \/ \E a \in 1..MaxActivations : ListenIndexReadyResolve(a)
    \/ \E a \in 1..MaxActivations : ListenSessionChangedResolve(a)
    \/ \E a \in 1..MaxActivations : WatchResolve(a)
    \/ \E a \in 1..MaxActivations, err \in Failures : AwaitReject(a, err)
    \/ \E ok \in BOOLEAN : UnwatchSettle(ok)
    \/ \E p \in Payloads, s \in IndexStatuses : IndexReadyEvent(p[1], p[2], s)
    \/ \E p \in Payloads : SessionChangedEvent(p[1], p[2])

Spec == Init /\ [][Next]_vars

\* ================================================================ claims
Acts == 1..Len(acts)
Identity(a) == <<acts[a].projectPath, acts[a].sessionId>>
Live(a, ev) == [act |-> a, event |-> ev] \in listeners
\* The active identity is that of the activation whose effect is mounted.
HasActive == current # 0
ActiveIdentity == Identity(current)

\* C1: watch_session is issued by an activation only after its index-ready
\* and its session-changed registration have both resolved successfully
\* (both disposers are stored); it is never issued before or without them.
C1_StartAfterBothSubscriptions ==
    \A a \in Acts :
        acts[a].watchCalls > 0 =>
            /\ acts[a].unlistenIndexReady
            /\ acts[a].unlistenSessionChanged
            /\ acts[a].pc \in {"watch", "returned"}

\* C1 witness: an activation has issued watch_session.
C1_Witness ==
    \E a \in Acts : acts[a].watchCalls = 1 /\ acts[a].pc = "watch"

\* C2: an activation that issued watch_session has issued no
\* unwatch_session while its effect is mounted (same identity, component
\* mounted), and exactly one once it was torn down; never two.
C2_ExactlyOneStop ==
    \A a \in Acts :
        acts[a].watchCalls > 0 =>
            IF a = current
            THEN /\ acts[a].unwatchCalls = 0
                 /\ mounted
                 /\ deps = Identity(a)
            ELSE acts[a].unwatchCalls = 1

\* C2 witness: an activation torn down while its watch_session call was
\* still pending has issued exactly one unwatch_session.
C2_Witness ==
    \E a \in Acts :
        /\ a # current
        /\ acts[a].pc = "watch"
        /\ acts[a].watchCalls = 1
        /\ acts[a].unwatchCalls = 1
\* C3: only the activation whose effect is mounted commits a transition.
\* A step that changes state, status or error is the effect flush, a
\* rejected await of the current activation, or an index-ready event for the
\* current activation's identity delivered to its registered handler; a
\* promise of a cancelled activation that settles changes none of them.
C3_OnlyCurrentCommits ==
    [][ /\ hookState' # hookState =>
            \/ CommitEffects
            \/ /\ HasActive
               /\ ~acts[current].cancelled
               /\ last'.op = "await-rejected"
               /\ last'.act = current
            \/ /\ HasActive
               /\ ~acts[current].cancelled
               /\ last'.op = "index-ready"
               /\ <<last'.projectPath, last'.sessionId>> = ActiveIdentity
               /\ Live(current, "index-ready")
        /\ \A a \in Acts :
              (acts[a].cancelled /\ last'.act = a) => hookState' = hookState
      ]_vars

\* C3 witness: an await of a torn-down activation has just rejected, and
\* the state cells do not show an error.
C3_Witness ==
    /\ last.op = "await-rejected"
    /\ acts[last.act].cancelled
    /\ state # "error"

\* C4: an index-ready event whose (projectPath, sessionId) is not the
\* active identity leaves state, status and error unchanged.
C4_MismatchIgnored ==
    [][ ( /\ last'.op = "index-ready"
          /\ \/ ~HasActive
             \/ <<last'.projectPath, last'.sessionId>> # ActiveIdentity )
        => hookState' = hookState ]_vars

\* C4 witness: an index-ready event for an abandoned identity has just been
\* delivered while another identity is active with its handler registered.
C4_Witness ==
    /\ last.op = "index-ready"
    /\ HasActive
    /\ Live(current, "index-ready")
    /\ <<last.projectPath, last.sessionId>> # ActiveIdentity
    /\ \E a \in Acts : a # current /\ Identity(a) = <<last.projectPath, last.sessionId>>

\* An index-ready event with payload p and status s is delivered to the
\* registered handler of the active identity p.
ReadyDelivered(p, s) ==
    /\ IndexReadyEvent(p[1], p[2], s)
    /\ HasActive
    /\ p = ActiveIdentity
    /\ Live(current, "index-ready")

\* C6: an index-ready event for the active identity whose status has no
\* error sets state to ready, status to the delivered status, error to null.
C6_ReadyOnSuccess ==
    [][ \A p \in Payloads, s \in IndexStatuses :
            (ReadyDelivered(p, s) /\ s.error = Null) =>
                /\ state' = "ready"
                /\ status' = <<s>>
                /\ error' = Null ]_vars

\* C6 witness: such an event has just been delivered and the cells are ready.
C6_Witness ==
    /\ last.op = "index-ready"
    /\ HasActive
    /\ <<last.projectPath, last.sessionId>> = ActiveIdentity
    /\ Live(current, "index-ready")
    /\ state = "ready"
    /\ status # NoStatus
    /\ status[1].error = Null

\* C7 as claimed: an index-ready event for the active identity whose
\* status.error is a string X sets state to error, error to X, status to null.
C7_Original ==
    [][ \A p \in Payloads, s \in IndexStatuses :
            (ReadyDelivered(p, s) /\ s.error # Null) =>
                /\ state' = "error"
                /\ error' = s.error
                /\ status' = NoStatus ]_vars

\* C7 amended: an index-ready event for the active identity whose
\* status.error is a non-empty string X sets state to error, error to X and
\* status to null.
C7_ErrorOnNonEmptyError ==
    [][ \A p \in Payloads, s \in IndexStatuses :
            (ReadyDelivered(p, s) /\ s.error # Null /\ s.error # "") =>
                /\ state' = "error"
                /\ error' = s.error
                /\ status' = NoStatus ]_vars

\* C7 witness: such an event has just been delivered after the identity was
\* ready, and the cells hold the engine's error and no status.
C7_Witness ==
    /\ last.op = "index-ready"
    /\ HasActive
    /\ <<last.projectPath, last.sessionId>> = ActiveIdentity
    /\ Live(current, "index-ready")
    /\ state = "error"
    /\ error = "X"
    /\ status = NoStatus

\* C10: the read model is consistent: status is non-null only when ready,
\* error is non-null only when error, isIndexing and isReady are true
\* exactly in the states indexing and ready.
C10_ReadModelConsistent ==
    /\ view.status # NoStatus => view.state = "ready"
    /\ view.error # Null => view.state = "error"
    /\ view.isIndexing <=> view.state = "indexing"
    /\ view.isReady <=> view.state = "ready"
    /\ view.state \in {"idle", "indexing", "ready", "error"}

\* C10 witness: an error read model produced by an index-ready event that
\* carries an error.
C10_Witness ==
    /\ last.op = "index-ready"
    /\ view.state = "error"
    /\ view.error = "X"
    /\ view.status = NoStatus
\* C5 as claimed: once the hook is rendered with a new non-null identity the
\* consumer reads indexing with null status and error, never the cells left
\* by the previous identity.  Checked in the state right after the render
\* for the new identity has returned (its effect has not run yet).
C5_NoStaleRead ==
    ( /\ mounted
      /\ EffectPending
      /\ last = NoEvent
      /\ Truthy(sessionId)
      /\ deps # <<>>
      /\ Truthy(deps[2]) )
    => view = ReadModel("indexing", NoStatus, Null)

\* The effect last ran with a null sessionId and the component is mounted.
NullAdopted == mounted /\ deps # <<>> /\ deps[2] = Null

\* listen() calls an activation has issued: one when it is created, the
\* second when the first has resolved.
ListenCalls(rec) == IF rec.unlistenIndexReady THEN 2 ELSE 1

\* C8 as claimed: with a null sessionId adopted the cells are idle, null,
\* null, and as long as it stays adopted no listen() and no watch_session
\* is issued to the bridge.
C8_IdleIssuesNothing ==
    [][ /\ NullAdopted =>
            (state = "idle" /\ status = NoStatus /\ error = Null)
        /\ (NullAdopted /\ NullAdopted') =>
            /\ state' = "idle"
            /\ Len(acts') = Len(acts)
            /\ \A a \in Acts :
                  /\ ListenCalls(acts'[a]) = ListenCalls(acts[a])
                  /\ acts'[a].watchCalls = acts[a].watchCalls
      ]_vars

\* C9 as claimed: a session-changed event for the active identity, delivered
\* to its registered handler while a callback is supplied, calls the
\* callback held by the ref exactly once.
C9_CallbackExactlyOnce ==
    ( /\ last.op = "session-changed"
      /\ HasActive
      /\ <<last.projectPath, last.sessionId>> = ActiveIdentity
      /\ Live(current, "session-changed")
      /\ onSessionChangedRef # Null )
    => last.calls = <<onSessionChangedRef>>
\* C11: a rejected listen() or watch_session of the mounted activation sets
\* state to error, error to the failure's text and status to null, and an
\* activation whose setupSession has returned issues no further listen()
\* or watch_session (no retry).
C11_ActivationFailure ==
    [][ /\ \A a \in Acts, err \in Failures :
              (AwaitReject(a, err) /\ a = current) =>
                  /\ state' = "error"
                  /\ error' = ErrText(err)
                  /\ status' = NoStatus
                  /\ acts'[a].pc = "returned"
        /\ \A a \in Acts :
              acts[a].pc = "returned" =>
                  /\ a \in 1..Len(acts')
                  /\ acts'[a].pc = "returned"
                  /\ ListenCalls(acts'[a]) = ListenCalls(acts[a])
                  /\ acts'[a].watchCalls = acts[a].watchCalls
      ]_vars

\* C11 witness: the watch_session call of the mounted activation has just
\* rejected with an Error object and the cells hold its message.
C11_Witness ==
    /\ last.op = "await-rejected"
    /\ last.act = current
    /\ acts[current].watchCalls = 1
    /\ state = "error"
    /\ error = "disk full"
    /\ status = NoStatus

\* C12: a rejected unwatch_session changes nothing but the set of pending
\* promises: the cells, the closures, the listeners and the mounted effect
\* are as before, so whatever could proceed still can.
C12_StopFailureOnlyLogged ==
    [][ last'.op = "unwatch-rejected" =>
            /\ hookState' = hookState
            /\ acts' = acts
            /\ listeners' = listeners
            /\ current' = current
            /\ deps' = deps
            /\ mounted' = mounted
            /\ unwatchPending' = unwatchPending - 1 ]_vars

\* C12 witness: an unwatch_session has just rejected while the next
\* identity's activation is under way and the cells show indexing.
C12_Witness ==
    /\ last.op = "unwatch-rejected"
    /\ HasActive
    /\ current > 1
    /\ acts[current].pc # "returned"
    /\ state = "indexing"
\* The handlers of stream ev still registered at the bridge.
Handles(ev) == {l \in listeners : l.event = ev}

\* Activation a issued watch_session after its cleanup had issued
\* unwatch_session: its session-changed handler was registered after the
\* cleanup (the disposer variable was still null), so it is never disposed.
StartedAfterStop(a) ==
    /\ acts[a].cancelled
    /\ acts[a].watchCalls > 0
    /\ Live(a, "session-changed")

\* Activation a holds a started and not yet stopped watch.
Watching(a) ==
    /\ acts[a].watchCalls > 0
    /\ (acts[a].unwatchCalls = 0 \/ StartedAfterStop(a))

\* C13: every registered handler and every started and not yet stopped
\* watch belongs to the identity of the mounted activation, and each stream
\* has at most one registered handler.
C13_AtMostOneActive ==
    /\ \A l \in listeners : HasActive /\ Identity(l.act) = ActiveIdentity
    /\ \A a \in Acts : Watching(a) => (HasActive /\ Identity(a) = ActiveIdentity)
    /\ Cardinality(Handles("index-ready")) <= 1
    /\ Cardinality(Handles("session-changed")) <= 1

\* C15: once an activation is torn down and its two listen() calls have
\* resolved, none of its handlers is registered.
C15_NoSubscriptionLeak ==
    \A a \in Acts :
        (acts[a].cancelled /\ acts[a].pc \in {"watch", "returned"}) =>
            (~Live(a, "index-ready") /\ ~Live(a, "session-changed"))

\* C16: a torn-down activation issues no further listen() and no
\* watch_session.
C16_NoRequestAfterTeardown ==
    [][ \A a \in Acts :
            acts[a].cancelled =>
                /\ ListenCalls(acts'[a]) = ListenCalls(acts[a])
                /\ acts'[a].watchCalls = acts[a].watchCalls ]_vars

\* C17: a session-changed event whose payload is not the identity of the
\* mounted activation makes no call to the consumer's callback.
C17_ForeignChangeIgnored ==
    (/\ last.op = "session-changed"
     /\ (~HasActive \/ <<last.projectPath, last.sessionId>> # ActiveIdentity))
        => last.calls = <<>>
\* The step taken delivers index-ready for the identity of the mounted
\* activation to its registered handler.
ReadinessForActive ==
    /\ last'.op = "index-ready"
    /\ HasActive
    /\ <<last'.projectPath, last'.sessionId>> = ActiveIdentity
    /\ Live(current, "index-ready")

\* The step taken is the rejection of an await of the mounted activation.
FailureOfActive ==
    /\ last'.op = "await-rejected"
    /\ HasActive
    /\ last'.act = current

\* C14: once the cells show ready or error for the mounted activation, no
\* step changes state, status or error as long as that activation stays
\* mounted.
C14_ReadyErrorTerminal ==
    [][ (HasActive /\ current' = current /\ state \in {"ready", "error"})
            => hookState' = hookState ]_vars

\* A resolved listen() or watch_session leaves the cells alone.
ResolutionsSilent ==
    last'.op \in {"listen-index-ready-resolved",
                  "listen-session-changed-resolved",
                  "watch-resolved"}
        => hookState' = hookState

\* While one activation stays mounted, indexing is left only by an
\* index-ready event or by a rejected await.
IndexingLeftOnlyByEventOrFailure ==
    (/\ state = "indexing"
     /\ HasActive
     /\ current' = current
     /\ hookState' # hookState)
        => (ReadinessForActive \/ FailureOfActive)

\* C18 as claimed: the cells become ready only by an index-ready event for
\* the identity of the mounted activation whose status has no error field;
\* resolutions change nothing and indexing persists without event or failure.
C18_Original ==
    [][ /\ (state' = "ready" /\ hookState' # hookState)
              => (ReadinessForActive /\ status'[1].error = Null)
        /\ ResolutionsSilent
        /\ IndexingLeftOnlyByEventOrFailure ]_vars

\* C18, amended: the cells become ready only by an index-ready event for
\* the identity of the mounted activation whose status.error is absent or
\* the empty string; resolutions change nothing and indexing persists
\* without event or failure.
C18_ReadyOnlyByReadiness ==
    [][ /\ (state' = "ready" /\ hookState' # hookState)
              => (ReadinessForActive /\ ~Truthy(status'[1].error))
        /\ ResolutionsSilent
        /\ IndexingLeftOnlyByEventOrFailure ]_vars

\* C18 witness: watch_session of the mounted activation has just resolved
\* and the cells still show indexing.
C18_Witness ==
    /\ last.op = "watch-resolved"
    /\ HasActive
    /\ last.act = current
    /\ state = "indexing"
    /\ status = NoStatus
    /\ error = Null

\* The step taken runs a cleanup or creates an activation.
TeardownOrActivation ==
    \/ Len(acts') # Len(acts)
    \/ \E a \in Acts : acts'[a].cancelled # acts[a].cancelled
    \/ current' # current

\* C19: a render with the same projectPath and sessionId, whatever the
\* callback, only overwrites the ref: no cell changes, nothing is disposed,
\* registered, started or stopped and no effect is left to run; a cleanup
\* or an activation happens only in a step where the dependency array
\* changes by value or the component unmounts.
C19_CallbackReplacementSilent ==
    [][ /\ \A p \in Props, cb \in Callbacks :
              (Render(p[1], p[2], cb) /\ p = <<projectPath, sessionId>>) =>
                  /\ UNCHANGED <<state, status, error, acts, listeners,
                                 current, deps, unwatchPending, mounted>>
                  /\ ~EffectPending'
        /\ TeardownOrActivation =>
              \/ deps' # deps /\ deps' = <<projectPath, sessionId>>
              \/ mounted /\ ~mounted'
      ]_vars

\* C19 witness: the last step was a render with unchanged projectPath and
\* sessionId while the mounted activation has its session-changed handler
\* registered; the ref holds cb2.
C19_Witness ==
    /\ mounted
    /\ last = NoEvent
    /\ ~EffectPending
    /\ HasActive
    /\ Live(current, "session-changed")
    /\ Live(current, "index-ready")
    /\ onSessionChangedRef = "cb2"

\* C20: state becomes indexing only in the effect run that adopts a truthy
\* sessionId with a changed dependency array and creates its activation.
C20_IndexingOnlyOnAdoption ==
    [][ (state' = "indexing" /\ state # "indexing") =>
            /\ deps' # deps
            /\ deps' = <<projectPath, sessionId>>
            /\ Truthy(sessionId)
            /\ Len(acts') = Len(acts) + 1
            /\ current' = Len(acts')
            /\ acts'[current'].pc = "listenIndexReady" ]_vars

\* C20 witness: the effect has just adopted a second identity: the cells
\* show indexing and the new activation waits at its first await.
C20_Witness ==
    /\ state = "indexing"
    /\ last = NoEvent
    /\ current = 2
    /\ acts[2].pc = "listenIndexReady"
    /\ acts[1].pc = "returned"
    /\ status = NoStatus
    /\ error = Null

====
